---------------------------- MODULE Spec2Model ----------------------------
(***************************************************************************)
(* A model of message_analysis.py (fb-messenger-analyzer): the date        *)
(* parser, the regex based message extractor, the content addressed CSV    *)
(* cache and the per-user aggregation.                                     *)
(*                                                                         *)
(* Text is modelled as a sequence of characters (one-character strings);   *)
(* markup is modelled as a sequence of elements (see "HTML source").       *)
(* A Python exception is modelled as a result record with ok = FALSE.      *)
(***************************************************************************)
EXTENDS Integers, Sequences, FiniteSets, TLC

VARIABLES
    cache_dir,  \* TRUE when the cache directory exists on disk
    fs,         \* the cache directory: artifact path -> rows on disk
    origin,     \* history: artifact path -> the sources whose runs opened it for writing
    proc,       \* one record per process running the script
    log,        \* history: one record per finished run, in order of completion
    started,    \* number of runs started so far
    dt_str,     \* date parser: the input string
    dt_res,     \* date parser: <<>>, or <<r>> with r the result of parse_datetime
    msg,        \* the Messages a cache is written from
    csvfile,    \* cache round trip: the bytes of the rows written
    readback,   \* cache round trip: <<>>, or <<r>> with r what the cache reader returned
    html,       \* extractor: the source text scanned
    scanned     \* extractor: <<>>, or <<r>> with r the result of the write loop

vars == <<cache_dir, fs, origin, proc, log, started,
          dt_str, dt_res, msg, csvfile, readback, html, scanned>>

runVars == <<cache_dir, fs, origin, proc, log, started>>
dateVars == <<dt_str, dt_res>>
csvVars == <<msg, csvfile, readback>>
scanVars == <<html, scanned>>

-----------------------------------------------------------------------------
(* Bounds of the model.                                                    *)

\* Largest number of space separated tokens in a date parser input.
MaxTokens == 8
\* Largest length of a user or body text in the cache round trip.
MaxLen == 2
\* Largest number of elements in a scanned source text.
MaxElems == 6
\* Largest number of runs started in one behaviour.
MaxRuns == 3
\* Largest number of rows of a synthetic cache handed to the aggregator.
MaxRows == 6

-----------------------------------------------------------------------------
(* Strings and the Python built-ins the code uses on them.                 *)

Lowers == <<"a","b","c","d","e","f","g","h","i","j","k","l","m",
            "n","o","p","q","r","s","t","u","v","w","x","y","z">>
Uppers == <<"A","B","C","D","E","F","G","H","I","J","K","L","M",
            "N","O","P","Q","R","S","T","U","V","W","X","Y","Z">>
Digits == <<"0","1","2","3","4","5","6","7","8","9">>

\* 1-based position of x in seq, 0 when absent.
IndexOf(seq, x) ==
    IF \E i \in 1..Len(seq) : seq[i] = x
    THEN CHOOSE i \in 1..Len(seq) : seq[i] = x /\ \A j \in 1..(i-1) : seq[j] # x
    ELSE 0

Ok(v) == [ok |-> TRUE, val |-> v]
Err(kind) == [ok |-> FALSE, err |-> kind]

upper(c) == IF IndexOf(Lowers, c) > 0 THEN Uppers[IndexOf(Lowers, c)] ELSE c
lower(c) == IF IndexOf(Uppers, c) > 0 THEN Lowers[IndexOf(Uppers, c)] ELSE c

\* str.capitalize(): first character upper-cased, the rest lower-cased.
capitalize(s) ==
    [i \in 1..Len(s) |-> IF i = 1 THEN upper(s[i]) ELSE lower(s[i])]

\* str.split(sep) with an explicit one-character separator: the pieces
\* between the occurrences of sep, empty pieces included.
split(s, sep) ==
    LET at == { i \in 1..Len(s) : s[i] = sep }
        \* the position of the k-th separator; 0 and Len(s)+1 bound the string
        cut(k) == IF k = 0 THEN 0
                  ELSE IF k > Cardinality(at) THEN Len(s) + 1
                  ELSE CHOOSE i \in at : Cardinality({ j \in at : j < i }) = k - 1
    IN  [k \in 1..(Cardinality(at) + 1) |-> SubSeq(s, cut(k-1) + 1, cut(k) - 1)]

RECURSIVE join(_, _)
\* sep.join(parts)
join(parts, sep) ==
    IF parts = <<>> THEN <<>>
    ELSE IF Len(parts) = 1 THEN parts[1]
    ELSE parts[1] \o <<sep>> \o join(Tail(parts), sep)

RECURSIVE DigitsValue(_, _)
DigitsValue(s, acc) ==
    IF s = <<>> THEN acc
    ELSE DigitsValue(Tail(s), 10 * acc + (IndexOf(Digits, Head(s)) - 1))

AllDigits(s) == s # <<>> /\ \A i \in 1..Len(s) : IndexOf(Digits, s[i]) > 0

\* int(s): an optional sign and at least one decimal digit, else ValueError.
int(s) ==
    IF AllDigits(s) THEN Ok(DigitsValue(s, 0))
    ELSE IF s # <<>> /\ Head(s) \in {"+", "-"} /\ AllDigits(Tail(s))
         THEN Ok((IF Head(s) = "-" THEN -1 ELSE 1) * DigitsValue(Tail(s), 0))
         ELSE Err("ValueError")

-----------------------------------------------------------------------------
(* Date parsing.                                                           *)

\* calendar.month_name under the source locale (en_US): index 0 is ''.
month_name ==
    << <<>>,
       <<"J","a","n","u","a","r","y">>,
       <<"F","e","b","r","u","a","r","y">>,
       <<"M","a","r","c","h">>,
       <<"A","p","r","i","l">>,
       <<"M","a","y">>,
       <<"J","u","n","e">>,
       <<"J","u","l","y">>,
       <<"A","u","g","u","s","t">>,
       <<"S","e","p","t","e","m","b","e","r">>,
       <<"O","c","t","o","b","e","r">>,
       <<"N","o","v","e","m","b","e","r">>,
       <<"D","e","c","e","m","b","e","r">> >>

LabelUTC == <<"U","T","C">>
LabelUTC01 == <<"U","T","C","+","0","1">>

\* A timezone object: its name and the UTC offset, in minutes, that utcoffset()
\* returns for it.  A pytz zone attached with tzinfo= (never localized) carries
\* the zone's first, local mean time, offset: +01:12 for Europe/Stockholm.
pytz_utc == [name |-> "UTC", offset |-> 0]
pytz_stockholm == [name |-> "Europe/Stockholm", offset |-> 72]

\* The timezone table: label -> timezone.
tz == [l \in {LabelUTC, LabelUTC01} |->
         IF l = LabelUTC THEN pytz_utc ELSE pytz_stockholm]

utcoffset(zone) == zone.offset

IsLeap(y) == (y % 4 = 0 /\ y % 100 # 0) \/ y % 400 = 0

DaysInMonth(y, m) ==
    CASE m \in {1, 3, 5, 7, 8, 10, 12} -> 31
      [] m \in {4, 6, 9, 11} -> 30
      [] OTHER -> IF IsLeap(y) THEN 29 ELSE 28

\* datetime.datetime(year, month, day, hour, minute, tzinfo=zone)
datetime(year, month, day, hour, minute, zone) ==
    IF /\ year \in 1..9999
       /\ month \in 1..12
       /\ day >= 1 /\ day <= DaysInMonth(year, month)
       /\ hour \in 0..23
       /\ minute \in 0..59
    THEN Ok([year |-> year, month |-> month, day |-> day,
             hour |-> hour, minute |-> minute, second |-> 0, tzinfo |-> zone])
    ELSE Err("ValueError")

\* Seeded fault: the variant reads the clock and the timezone one token early, as a parser
\* written for a six token date would.
parse_datetime_shifted(s) ==
    LET parts == split(s, " ")
        n == Len(parts)
        hm == IF n >= 5 THEN split(parts[5], ":") ELSE <<>>
    IN  IF n < 6 THEN Err("IndexError")
        ELSE IF Len(hm) # 2 \/ ~int(hm[1]).ok \/ ~int(hm[2]).ok
                \/ ~int(parts[4]).ok \/ ~int(parts[2]).ok
             THEN Err("ValueError")
        ELSE IF IndexOf(month_name, capitalize(parts[3])) = 0 THEN Err("ValueError")
        ELSE IF parts[6] \notin DOMAIN tz THEN Err("KeyError")
        ELSE datetime(int(parts[4]).val,
                      IndexOf(month_name, capitalize(parts[3])) - 1,
                      int(parts[2]).val, int(hm[1]).val, int(hm[2]).val,
                      tz[parts[6]])

\* parse_datetime(dt_str).  Python indexes from 0: parts[5] is the sixth token.
parse_datetime(s) ==
    LET parts == split(s, " ")
        n == Len(parts)
        hm == IF n >= 6 THEN split(parts[6], ":") ELSE <<>>
    IN  IF n < 6 THEN Err("IndexError")
        ELSE IF \E i \in 1..Len(hm) : ~int(hm[i]).ok THEN Err("ValueError")
        ELSE IF Len(hm) # 2 THEN Err("ValueError")
        ELSE IF ~int(parts[4]).ok THEN Err("ValueError")
        ELSE IF IndexOf(month_name, capitalize(parts[3])) = 0 THEN Err("ValueError")
        ELSE IF ~int(parts[2]).ok THEN Err("ValueError")
        ELSE IF n < 7 THEN Err("IndexError")
        ELSE IF parts[7] \notin DOMAIN tz THEN Err("KeyError")
        ELSE datetime(int(parts[4]).val,
                      IndexOf(month_name, capitalize(parts[3])) - 1,
                      int(parts[2]).val, int(hm[1]).val, int(hm[2]).val,
                      tz[parts[7]])

(* Inputs of the date parser: seven tokens in the positions the parser reads, *)
(* each drawn from well-formed and ill-formed variants, then cut to fewer     *)
(* tokens or padded with extra ones.                                          *)

TokWeekday == <<"M","o","n","d","a","y",",">>
TokAt == <<"a","t">>
TokYear == <<"2","0","2","2">>
TokExtra == <<"x">>
DayTokens == { <<"3">>, <<"3","1">>, <<"0">>, <<"3","2">> }
MonthTokens == { <<"J","a","n","u","a","r","y">>, <<"j","A","N","U","A","R","Y">>,
                 <<"F","e","b","r","u","a","r","y">>, <<"J","a","n">>,
                 <<"F","o","o">> }
TimeTokens == { <<"0","9",":","1","5">>, <<"2","3",":","5","9">>,
                <<"2","4",":","0","0">>, <<"0","9",":","6","0">>,
                <<"0","9","1","5">> }
TzTokens == { LabelUTC, LabelUTC01, <<"C","E","T">> }

DateInput(d, mo, t, z, n) ==
    LET seven == <<TokWeekday, d, mo, TokYear, TokAt, t, z>>
        toks == [i \in 1..n |-> IF i <= 7 THEN seven[i] ELSE TokExtra]
    IN  join(toks, " ")

InitDate ==
    /\ \E d \in DayTokens, mo \in MonthTokens, t \in TimeTokens, z \in TzTokens,
          n \in 5..MaxTokens :
          dt_str = DateInput(d, mo, t, z, n)
    /\ dt_res = <<>>

\* One call of parse_datetime.
ParseDate ==
    /\ dt_res = <<>>
    /\ dt_res' = <<parse_datetime(dt_str)>>
    /\ UNCHANGED <<dt_str, runVars, csvVars, scanVars>>

-----------------------------------------------------------------------------
(* Timestamps: what the code reads from them and how they are written.     *)

\* date.toordinal(): 1 for 0001-01-01.
DaysBeforeYear(y) == (y-1) * 365 + (y-1) \div 4 - (y-1) \div 100 + (y-1) \div 400

RECURSIVE DaysBeforeMonth(_, _)
DaysBeforeMonth(y, m) ==
    IF m = 1 THEN 0 ELSE DaysBeforeMonth(y, m-1) + DaysInMonth(y, m-1)

toordinal(d) == DaysBeforeYear(d.year) + DaysBeforeMonth(d.year, d.month) + d.day

\* datetime.weekday(): Monday is 0.
weekday(d) == (toordinal(d) + 6) % 7

\* The absolute time of an aware datetime, in minutes: what == compares.
Instant(d) ==
    (toordinal(d) * 24 + d.hour) * 60 + d.minute - utcoffset(d.tzinfo)

Pad2(n) == <<Digits[((n \div 10) % 10) + 1], Digits[(n % 10) + 1]>>
Pad4(n) == Pad2(n \div 100) \o Pad2(n % 100)

\* datetime.isoformat() of an aware datetime without microseconds.
isoformat(d) ==
    LET off == utcoffset(d.tzinfo)
        a == IF off < 0 THEN -off ELSE off
    IN  Pad4(d.year) \o <<"-">> \o Pad2(d.month) \o <<"-">> \o Pad2(d.day)
        \o <<"T">> \o Pad2(d.hour) \o <<":">> \o Pad2(d.minute)
        \o <<":">> \o Pad2(d.second)
        \o <<(IF off < 0 THEN "-" ELSE "+")>> \o Pad2(a \div 60)
        \o <<":">> \o Pad2(a % 60)

\* dateutil's parser.parse on a cache timestamp: the ISO-8601 layout that
\* isoformat writes, YYYY-MM-DDTHH:MM:SS+HH:MM; the result carries a fixed offset.
parser_parse(s) ==
    IF Len(s) # 25 THEN Err("ValueError")
    ELSE
    LET f(i, j) == SubSeq(s, i, j)
        num(i, j) == DigitsValue(f(i, j), 0)
    IN  IF ~ /\ AllDigits(f(1,4)) /\ AllDigits(f(6,7)) /\ AllDigits(f(9,10))
             /\ AllDigits(f(12,13)) /\ AllDigits(f(15,16)) /\ AllDigits(f(18,19))
             /\ AllDigits(f(21,22)) /\ AllDigits(f(24,25))
             /\ s[5] = "-" /\ s[8] = "-" /\ s[11] = "T" /\ s[14] = ":"
             /\ s[17] = ":" /\ s[20] \in {"+", "-"} /\ s[23] = ":"
        THEN Err("ValueError")
        ELSE LET r == datetime(num(1,4), num(6,7), num(9,10), num(12,13), num(15,16),
                        [name |-> "tzoffset",
                         offset |-> (IF s[20] = "-" THEN -1 ELSE 1)
                                    * (num(21,22) * 60 + num(24,25))])
             IN  IF r.ok /\ num(18,19) \in 0..59
                 THEN Ok([r.val EXCEPT !.second = num(18,19)])
                 ELSE Err("ValueError")

-----------------------------------------------------------------------------
(* The cache rows: csv.writer and csv.reader with the code's dialect.      *)

Message(user, message, created) ==
    [user |-> user, message |-> message, created |-> created]

\* A text is a sequence of characters; "U+E9" stands for one non-ASCII
\* character, which UTF-8 encodes as the two bytes "xC3" "xA9".
RECURSIVE encode_utf8(_)
encode_utf8(text) ==
    IF text = <<>> THEN <<>>
    ELSE (IF Head(text) = "U+E9" THEN <<"xC3", "xA9">> ELSE <<Head(text)>>)
         \o encode_utf8(Tail(text))

RECURSIVE DecodeAcc(_, _)
DecodeAcc(bytes, acc) ==
    IF bytes = <<>> THEN Ok(acc)
    ELSE IF Head(bytes) = "xC3"
         THEN IF Len(bytes) >= 2 /\ bytes[2] = "xA9"
              THEN DecodeAcc(Tail(Tail(bytes)), Append(acc, "U+E9"))
              ELSE Err("UnicodeDecodeError")
    ELSE IF Head(bytes) = "xA9" THEN Err("UnicodeDecodeError")
    ELSE DecodeAcc(Tail(bytes), Append(acc, Head(bytes)))

\* bytes.decode('utf-8')
decode_utf8(bytes) == DecodeAcc(bytes, <<>>)

delimiter == ","
quotechar == "\""
lineterminator == <<"\r", "\n">>

RECURSIVE DoubleQuotes(_)
DoubleQuotes(field) ==
    IF field = <<>> THEN <<>>
    ELSE (IF Head(field) = quotechar THEN <<quotechar, quotechar>> ELSE <<Head(field)>>)
         \o DoubleQuotes(Tail(field))

\* Seeded fault: the variant writes every field as it is, as quoting=csv.QUOTE_NONE would.
WriteFieldUnquoted(field) == field

\* One field under QUOTE_MINIMAL: quoted when it holds the delimiter, the quote
\* character or a character of the line terminator; embedded quotes doubled.
WriteField(field) ==
    IF \E i \in 1..Len(field) :
          field[i] \in {delimiter, quotechar, lineterminator[1], lineterminator[2]}
    THEN <<quotechar>> \o DoubleQuotes(field) \o <<quotechar>>
    ELSE field

\* csvwriter.writerow(fields): the bytes of one row.
writerow(fields) ==
    join([i \in 1..Len(fields) |-> WriteField(fields[i])], delimiter)
    \o lineterminator

\* The row the cache build writes for one Message.
CacheRow(m) ==
    writerow(<<encode_utf8(m.user), encode_utf8(m.message), isoformat(m.created)>>)

(* csv.reader: the parser's state machine.  "EOL" is the end-of-line signal  *)
(* the reader feeds itself after each line of the file it iterates over.     *)
ReaderInit ==
    [state |-> "START_RECORD", field |-> <<>>, fields |-> <<>>,
     rows |-> <<>>, err |-> ""]

SaveField(r) == [r EXCEPT !.fields = Append(@, r.field), !.field = <<>>]
AddChar(r, c) == [r EXCEPT !.field = Append(@, c)]
To(r, st) == [r EXCEPT !.state = st]
IsNl(c) == c \in {"\n", "\r"}
AfterNl(c) == IF c = "EOL" THEN "START_RECORD" ELSE "EAT_CRNL"

StartField(r, c) ==
    IF IsNl(c) \/ c = "EOL" THEN To(SaveField(r), AfterNl(c))
    ELSE IF c = quotechar THEN To(r, "IN_QUOTED_FIELD")
    ELSE IF c = delimiter THEN To(SaveField(r), "START_FIELD")
    ELSE To(AddChar(r, c), "IN_FIELD")

parse_process_char(r, c) ==
    CASE r.state = "START_RECORD" ->
            IF c = "EOL" THEN r
            ELSE IF IsNl(c) THEN To(r, "EAT_CRNL")
            ELSE StartField(r, c)
      [] r.state = "START_FIELD" -> StartField(r, c)
      [] r.state = "IN_FIELD" ->
            IF IsNl(c) \/ c = "EOL" THEN To(SaveField(r), AfterNl(c))
            ELSE IF c = delimiter THEN To(SaveField(r), "START_FIELD")
            ELSE AddChar(r, c)
      [] r.state = "IN_QUOTED_FIELD" ->
            IF c = "EOL" THEN r
            ELSE IF c = quotechar THEN To(r, "QUOTE_IN_QUOTED_FIELD")
            ELSE AddChar(r, c)
      [] r.state = "QUOTE_IN_QUOTED_FIELD" ->
            IF c = quotechar THEN To(AddChar(r, c), "IN_QUOTED_FIELD")
            ELSE IF c = delimiter THEN To(SaveField(r), "START_FIELD")
            ELSE IF IsNl(c) \/ c = "EOL" THEN To(SaveField(r), AfterNl(c))
            ELSE To(AddChar(r, c), "IN_FIELD")
      [] r.state = "EAT_CRNL" ->
            IF IsNl(c) THEN r
            ELSE IF c = "EOL" THEN To(r, "START_RECORD")
            ELSE [r EXCEPT !.err = "Error"]

\* After a line: a record is complete when the parser is back at START_RECORD.
EndOfLine(r) ==
    LET q == parse_process_char(r, "EOL")
    IN  IF q.err = "" /\ q.state = "START_RECORD"
        THEN [q EXCEPT !.rows = Append(@, q.fields), !.fields = <<>>]
        ELSE q

\* One byte of the file: a NUL byte is an error; a line feed ends a line.
ReadByte(r, c) ==
    IF r.err # "" THEN r
    ELSE IF c = "NUL" THEN [r EXCEPT !.err = "Error"]
    ELSE IF c = "\n" THEN EndOfLine(parse_process_char(r, c))
    ELSE parse_process_char(r, c)

RECURSIVE ReadBytes(_, _, _, _)
\* The reader over bytes[lo..hi], in order; it stops at its first error.
ReadBytes(r, bytes, lo, hi) ==
    IF lo > hi THEN r
    ELSE IF lo = hi THEN ReadByte(r, bytes[lo])
    ELSE LET mid == (lo + hi) \div 2
             left == ReadBytes(r, bytes, lo, mid)
         IN  IF left.err # "" THEN left ELSE ReadBytes(left, bytes, mid + 1, hi)

\* The reader at the end of the file: a last line without a line feed ends,
\* and a record still open is returned as it stands.
ReaderRun(bytes) ==
    LET r == ReadBytes(ReaderInit, bytes, 1, Len(bytes))
        q == IF r.err = "" /\ bytes # <<>> /\ bytes[Len(bytes)] # "\n"
             THEN EndOfLine(r) ELSE r
    IN  IF q.err = "" /\ (q.field # <<>> \/ q.state = "IN_QUOTED_FIELD")
        THEN [q EXCEPT !.rows = Append(@, Append(q.fields, q.field)),
                       !.fields = <<>>, !.field = <<>>]
        ELSE q

\* list(csv.reader(csvfile)): the rows, or the reader's error.
csv_reader(bytes) ==
    LET r == ReaderRun(bytes)
    IN  IF r.err # "" THEN Err(r.err) ELSE Ok(r.rows)

\* One element of parse_message_from_csv: a Message from a row of fields.
MessageFromLine(line) ==
    IF Len(line) < 3 THEN Err("IndexError")
    ELSE IF ~decode_utf8(line[1]).ok \/ ~decode_utf8(line[2]).ok
         THEN Err("UnicodeDecodeError")
    ELSE IF ~parser_parse(line[3]).ok THEN Err("ValueError")
    ELSE Ok(Message(decode_utf8(line[1]).val, decode_utf8(line[2]).val,
                    parser_parse(line[3]).val))

RECURSIVE MessagesFromLines(_, _)
MessagesFromLines(lines, acc) ==
    IF lines = <<>> THEN Ok(acc)
    ELSE LET m == MessageFromLine(Head(lines))
         IN  IF m.ok THEN MessagesFromLines(Tail(lines), Append(acc, m.val)) ELSE m

\* parse_message_from_csv(csv.reader(csvfile)), consumed to the end.
parse_message_from_csv(bytes) ==
    LET rows == csv_reader(bytes)
    IN  IF rows.ok THEN MessagesFromLines(rows.val, <<>>) ELSE rows

(* Inputs of the round trip: any text over an alphabet holding every        *)
(* character the dialect treats specially, and timestamps the date parser   *)
(* returns.                                                                 *)
Alphabet == {"a", ",", "\"", "\n", "\r", "U+E9"}

Texts == UNION { [1..n -> Alphabet] : n \in 0..MaxLen }

RoundTripDates ==
    { parse_datetime(DateInput(<<"3">>, <<"J","a","n","u","a","r","y">>,
                               <<"0","9",":","1","5">>, LabelUTC, 7)).val,
      parse_datetime(DateInput(<<"3","1">>, <<"j","A","N","U","A","R","Y">>,
                               <<"2","3",":","5","9">>, LabelUTC01, 7)).val }

\* A second message, written after the one under test.
NextMessage ==
    Message(<<"b">>, <<"o","k">>,
            parse_datetime(DateInput(<<"3">>, <<"F","e","b","r","u","a","r","y">>,
                                     <<"2","3",":","5","9">>, LabelUTC, 7)).val)

InitCsv ==
    /\ \E u \in Texts, b \in Texts, c \in RoundTripDates :
          msg = <<Message(u, b, c), NextMessage>>
    /\ csvfile = <<>>
    /\ readback = <<>>

RECURSIVE CacheRows(_)
CacheRows(ms) == IF ms = <<>> THEN <<>> ELSE CacheRow(Head(ms)) \o CacheRows(Tail(ms))

\* The cache build's write loop over the messages.
WriteRows ==
    /\ csvfile = <<>>
    /\ csvfile' = CacheRows(msg)
    /\ UNCHANGED <<msg, readback, runVars, dateVars, scanVars>>

\* The aggregation's read of the whole cache.
ReadRows ==
    /\ csvfile # <<>> /\ readback = <<>>
    /\ readback' = <<parse_message_from_csv(csvfile)>>
    /\ UNCHANGED <<msg, csvfile, runVars, dateVars, scanVars>>

-----------------------------------------------------------------------------
(* HTML source.  A source text is a sequence of elements:                  *)
(*   "div"   the message-start marker  <div class="message">               *)
(*   "user"  an element of class user holding text                         *)
(*   "meta"  an element of class meta holding text                         *)
(*   "p"     a paragraph open tag followed by text                         *)
(*   "/p"    the paragraph-close marker  </p>                              *)
(*   "nl"    a line break                                                  *)

El(t, text) == [t |-> t, text |-> text]
Div == El("div", <<>>)
PClose == El("/p", <<>>)
Nl == El("nl", <<"\n">>)

RECURSIVE LinesAcc(_, _, _)
LinesAcc(text, cur, acc) ==
    IF text = <<>> THEN (IF cur = <<>> THEN acc ELSE Append(acc, cur))
    ELSE IF Head(text).t = "nl"
         THEN LinesAcc(Tail(text), <<>>, Append(acc, Append(cur, Head(text))))
         ELSE LinesAcc(Tail(text), Append(cur, Head(text)), acc)

\* fileinput.input(file_path): the lines of the file, each with its line break.
fileinput(text) == LinesAcc(text, <<>>, <<>>)

RECURSIVE JoinLines(_)
\* '\n'.join(_input)
JoinLines(lines) ==
    IF lines = <<>> THEN <<>>
    ELSE IF Len(lines) = 1 THEN lines[1]
    ELSE lines[1] \o <<Nl>> \o JoinLines(Tail(lines))

\* Where a match that starts at the marker at i ends, 0 when there is none: the
\* first paragraph close after i, reached over elements "." matches.  Without
\* DOTALL "." does not match a line break.
MatchEnd(text, i, dotall) ==
    LET ends == { j \in (i+1)..Len(text) :
                    /\ text[j].t = "/p"
                    /\ \A k \in (i+1)..(j-1) : text[k].t # "/p"
                    /\ dotall \/ \A k \in (i+1)..(j-1) : text[k].t # "nl" }
    IN  IF ends = {} THEN 0 ELSE CHOOSE j \in ends : TRUE

RECURSIVE FindFrom(_, _, _, _)
FindFrom(text, i, dotall, acc) ==
    IF i > Len(text) THEN acc
    ELSE IF text[i].t = "div" /\ MatchEnd(text, i, dotall) > 0
         THEN FindFrom(text, MatchEnd(text, i, dotall) + 1, dotall,
                       Append(acc, SubSeq(text, i, MatchEnd(text, i, dotall))))
         ELSE FindFrom(text, i + 1, dotall, acc)

\* re.finditer(r'<div class="message">.*?</p>', text): the matches, in order.
finditer(text) == FindFrom(text, 1, FALSE, <<>>)

RECURSIVE ConcatText(_)
ConcatText(elems) ==
    IF elems = <<>> THEN <<>> ELSE Head(elems).text \o ConcatText(Tail(elems))

FirstOf(frag, t) == CHOOSE i \in 1..Len(frag) :
                       frag[i].t = t /\ \A j \in 1..(i-1) : frag[j].t # t
Has(frag, t) == \E i \in 1..Len(frag) : frag[i].t = t

\* parse_message_from_html(html): first user element, first paragraph (its
\* text runs to the end of the fragment), first meta element.
parse_message_from_html(frag) ==
    IF ~Has(frag, "user") THEN Err("IndexError")
    ELSE IF ~Has(frag, "p") THEN Err("IndexError")
    ELSE IF ~Has(frag, "meta") THEN Err("IndexError")
    ELSE LET created == parse_datetime(frag[FirstOf(frag, "meta")].text)
         IN  IF ~created.ok THEN created
             ELSE Ok(Message(frag[FirstOf(frag, "user")].text,
                             ConcatText(SubSeq(frag, FirstOf(frag, "p"), Len(frag))),
                             created.val))

RECURSIVE WriteLoop(_, _)
\* The write loop of the cache build over the matches: the rows written, and
\* whether the loop ran to its end or an exception left it.
WriteLoop(matches, rows) ==
    IF matches = <<>> THEN [ok |-> TRUE, rows |-> rows]
    ELSE LET m == parse_message_from_html(Head(matches))
         IN  IF m.ok THEN WriteLoop(Tail(matches), Append(rows, CacheRow(m.val)))
             ELSE [ok |-> FALSE, rows |-> rows]

\* Lines 107-124 on a source text.
BuildRows(text) == WriteLoop(finditer(JoinLines(fileinput(text))), <<>>)

(* Inputs of the scan: every sequence of elements up to a length. *)
TextAlice == <<"A","l","i","c","e">>
TextBob == <<"B","o","b">>
TextHello == <<"h","e","l","l","o">>
DateMonday == DateInput(<<"3">>, <<"J","a","n","u","a","r","y">>,
                        <<"0","9",":","1","5">>, LabelUTC, 7)
ScanElements == { Div, El("user", TextAlice), El("meta", DateMonday),
                  El("p", TextHello), PClose, Nl }

InitScan ==
    /\ html \in UNION { [1..n -> ScanElements] : n \in 0..MaxElems }
    /\ scanned = <<>>

\* The cache build over the source text.
Scan ==
    /\ scanned = <<>>
    /\ scanned' = <<BuildRows(html)>>
    /\ UNCHANGED <<html, runVars, dateVars, csvVars>>

-----------------------------------------------------------------------------
(* Aggregation.                                                            *)

User(weekdays, months, hours) ==
    [weekdays |-> weekdays, months |-> months, hours |-> hours]

\* f with key k bound to v.
Put(f, k, v) == [x \in (DOMAIN f) \cup {k} |-> IF x = k THEN v ELSE f[x]]

\* Seeded fault: the variant leaves the month out of the triple appended for a message.
AddMessageNoMonth(users, m) ==
    LET u == IF m.user \in DOMAIN users THEN users[m.user]
             ELSE User(<<>>, <<>>, <<>>)
    IN  Put(users, m.user,
            User(Append(u.weekdays, weekday(m.created)), u.months,
                 Append(u.hours, m.created.hour)))

\* The body of the aggregation loop: setdefault, then the three appends.
AddMessage(users, m) ==
    LET u == IF m.user \in DOMAIN users THEN users[m.user]
             ELSE User(<<>>, <<>>, <<>>)
    IN  Put(users, m.user,
            User(Append(u.weekdays, weekday(m.created)),
                 Append(u.months, m.created.month),
                 Append(u.hours, m.created.hour)))

RECURSIVE AddMessages(_, _)
AddMessages(users, ms) ==
    IF ms = <<>> THEN users ELSE AddMessages(AddMessage(users, Head(ms)), Tail(ms))

\* The sort key: lambda u: len(u[1].hours)
SortKey(item) == Len(item.user.hours)

RECURSIVE InsertSorted(_, _)
\* item placed after every element whose key is not larger (sorted is stable).
InsertSorted(seq, item) ==
    IF seq = <<>> THEN <<item>>
    ELSE IF SortKey(Head(seq)) <= SortKey(item)
         THEN <<Head(seq)>> \o InsertSorted(Tail(seq), item)
         ELSE <<item>> \o seq

RECURSIVE SortedAcc(_, _)
SortedAcc(items, acc) ==
    IF items = <<>> THEN acc
    ELSE SortedAcc(Tail(items), InsertSorted(acc, Head(items)))

\* Seeded fault: the variant keeps the dictionary's own order.
sorted_unsorted(items) == items

\* sorted(users.items(), key=...)
sorted(items) == SortedAcc(items, <<>>)

\* users.items(): the dictionary's entries in some order of its keys.
Orders(S) == { f \in [1..Cardinality(S) -> S] :
                 \A i, j \in 1..Cardinality(S) : i # j => f[i] # f[j] }
Items(users, order) ==
    [i \in 1..Len(order) |-> [name |-> order[i], user |-> users[order[i]]]]

-----------------------------------------------------------------------------
(* The script: one run per invocation, over the cache directory.           *)

Procs == {1, 2}

Source(name, bytes) == [name |-> name, bytes |-> bytes]
NoSource == Source("", <<>>)

DateBob == DateInput(<<"3","1">>, <<"j","A","N","U","A","R","Y">>,
                     <<"2","3",":","5","9">>, LabelUTC01, 7)
\* The timestamp text of the end-to-end example, and the text with the same
\* date in the seven token layout.
DateExample == <<"M","o","n"," ","3"," ","J","a","n"," ","2","0","2","2"," ",
                 "0","9",":","1","5"," ","U","T","C">>
Block(user, date, body) ==
    <<Div, El("user", user), El("meta", date), El("p", body), PClose>>

\* Three well-formed messages on one line.
SrcGood == Source("chat", Block(TextAlice, DateMonday, TextHello)
                          \o Block(TextBob, DateBob, <<"h","i",","," ","\"","A","\"">>)
                          \o Block(TextAlice, DateBob, <<"o","k">>))
\* A well-formed message, then one without a meta element, then a well-formed one.
SrcBad == Source("chat", Block(TextAlice, DateMonday, TextHello)
                         \o <<Div, El("user", TextBob), El("p", TextHello), PClose>>
                         \o Block(TextBob, DateBob, TextHello))
SrcExample == Source("chat", Block(TextAlice, DateExample, TextHello))
SrcExample7 == Source("chat", Block(TextAlice, DateMonday, TextHello))
\* A file with other content than SrcGood and the same MD5 digest.
SrcCollide == Source("chat", Block(TextBob, DateMonday, TextHello))

Sources == {SrcGood, SrcBad, SrcExample, SrcExample7, SrcCollide}
ConcSources == {SrcGood, SrcExample7}

\* hashlib.md5(bytes).hexdigest(): a digest is named by one content that has
\* it.  MD5 is not injective: the model holds one pair of distinct contents
\* with the same digest.
md5_hexdigest(bytes) == IF bytes = SrcCollide.bytes THEN SrcGood.bytes ELSE bytes

\* path.splitext(path.basename(file_path))[0]
BaseId(src) == src.name

\* Seeded fault: the variant leaves the digest out of the artifact's name.
CachePathNoHash(id, hash_sum) == [id |-> id, hash |-> <<>>]

\* path.join(cache_dir, "{}_{}.csv".format(_id, hash_sum))
CachePath(id, hash_sum) == [id |-> id, hash |-> hash_sum]
NoPath == CachePath("", <<>>)

\* What a hole left in a file by a write beyond its end reads as.
Hole == <<"NUL">>

\* The rows of a file after a write of rows at offset off.
WriteAt(file, off, rows) ==
    LET n == IF Len(file) > off + Len(rows) THEN Len(file) ELSE off + Len(rows)
    IN  [i \in 1..n |-> IF i > off /\ i <= off + Len(rows) THEN rows[i - off]
                        ELSE IF i <= Len(file) THEN file[i] ELSE Hole]

IdleProc ==
    [pc |-> "idle", src |-> NoSource, hash_sum |-> <<>>, cache_file |-> NoPath,
     matches |-> <<>>, buf |-> <<>>, off |-> 0, rpos |-> 0, users |-> <<>>,
     ordered |-> <<>>, err |-> "", stage |-> "",
     \* history of the run
     novel |-> FALSE, novelKey |-> FALSE, fresh |-> FALSE, built |-> FALSE,
     writes |-> 0]

LogEntry(r, outcome) ==
    [src |-> r.src, cache_file |-> r.cache_file, fresh |-> r.fresh,
     built |-> r.built, writes |-> r.writes, outcome |-> outcome]

\* The run of process p ends with an unhandled exception.
Fail(p, r, kind) ==
    /\ proc' = [proc EXCEPT ![p] = [r EXCEPT !.pc = "failed", !.err = kind,
                                             !.stage = proc[p].pc]]
    /\ log' = Append(log, LogEntry(r, "failed"))

InitRun ==
    /\ cache_dir = FALSE
    /\ fs = <<>>
    /\ origin = <<>>
    /\ proc = [p \in Procs |-> IdleProc]
    /\ log = <<>>
    /\ started = 0

\* Lines 83-96: a new invocation reads the file and computes its digest.
Start(p, pool) ==
    /\ proc[p].pc \in {"idle", "done", "failed"}
    /\ started < MaxRuns
    /\ \E s \in pool :
          proc' = [proc EXCEPT ![p] =
                     [IdleProc EXCEPT !.pc = "hashed", !.src = s,
                                      !.hash_sum = md5_hexdigest(s.bytes)]]
    /\ started' = started + 1
    /\ UNCHANGED <<cache_dir, fs, origin, log, dateVars, csvVars, scanVars>>

\* Line 99: path.exists(cache_dir)
CheckDir(p) ==
    /\ proc[p].pc = "hashed"
    /\ proc' = [proc EXCEPT ![p].pc = IF cache_dir THEN "isfile" ELSE "makedirs"]
    /\ UNCHANGED <<cache_dir, fs, origin, log, started, dateVars, csvVars, scanVars>>

\* Line 101: makedirs(cache_dir) raises OSError when the directory exists.
MakeDirs(p) ==
    /\ proc[p].pc = "makedirs"
    /\ IF cache_dir
       THEN Fail(p, proc[p], "OSError") /\ UNCHANGED cache_dir
       ELSE /\ cache_dir' = TRUE
            /\ proc' = [proc EXCEPT ![p].pc = "isfile"]
            /\ UNCHANGED log
    /\ UNCHANGED <<fs, origin, started, dateVars, csvVars, scanVars>>

\* Seeded fault: the variant never finds the artifact and always builds.
IsFileAlwaysBuild(p) ==
    /\ proc[p].pc = "isfile"
    /\ LET r == proc[p]
           cache_file == CachePath(BaseId(r.src), r.hash_sum)
       IN  proc' = [proc EXCEPT ![p] =
              [r EXCEPT !.cache_file = cache_file,
                        !.fresh = cache_file \notin DOMAIN fs,
                        !.pc = "build"]]
    /\ UNCHANGED <<cache_dir, fs, origin, log, started, dateVars, csvVars, scanVars>>

\* Lines 103-104: the artifact path, and whether a file is there.
IsFile(p) ==
    /\ proc[p].pc = "isfile"
    /\ LET r == proc[p]
           cache_file == CachePath(BaseId(r.src), r.hash_sum)
           cached == UNION { origin[q] : q \in DOMAIN fs }
       IN  proc' = [proc EXCEPT ![p] =
              [r EXCEPT !.cache_file = cache_file,
                        !.pc = IF cache_file \in DOMAIN fs THEN "analyse" ELSE "build",
                        !.fresh = cache_file \notin DOMAIN fs,
                        !.novel = \A s \in cached : s.bytes # r.src.bytes,
                        !.novelKey = \A s \in cached :
                            <<BaseId(s), md5_hexdigest(s.bytes)>>
                               # <<BaseId(r.src), r.hash_sum>>]]
    /\ UNCHANGED <<cache_dir, fs, origin, log, started, dateVars, csvVars, scanVars>>

\* Lines 107-119: the artifact is created, or truncated, by open(.., 'wb');
\* the source is read again and the scan starts.
OpenArtifact(p) ==
    /\ proc[p].pc = "build"
    /\ LET r == proc[p]
       IN  /\ fs' = Put(fs, r.cache_file, <<>>)
           /\ origin' = Put(origin, r.cache_file,
                            (IF r.cache_file \in DOMAIN origin
                             THEN origin[r.cache_file] ELSE {}) \cup {r.src})
           /\ proc' = [proc EXCEPT ![p] =
                 [r EXCEPT !.pc = "write", !.built = TRUE, !.off = 0, !.buf = <<>>,
                           !.writes = @ + 1,
                           !.matches = finditer(JoinLines(fileinput(r.src.bytes)))]]
    /\ UNCHANGED <<cache_dir, log, started, dateVars, csvVars, scanVars>>

\* Lines 119-124: the next match becomes a Message and a row in the file
\* object's buffer; an exception leaves the with block, which closes the file
\* and so writes the buffered rows.
WriteRow(p) ==
    /\ proc[p].pc = "write"
    /\ proc[p].matches # <<>>
    /\ LET r == proc[p]
           m == parse_message_from_html(Head(r.matches))
       IN  IF m.ok
           THEN /\ proc' = [proc EXCEPT ![p] =
                      [r EXCEPT !.matches = Tail(@),
                                !.buf = Append(@, CacheRow(m.val))]]
                /\ UNCHANGED <<fs, log>>
           ELSE /\ fs' = [fs EXCEPT ![r.cache_file] = WriteAt(@, r.off, r.buf)]
                /\ Fail(p, [r EXCEPT !.off = @ + Len(r.buf), !.buf = <<>>,
                                     !.writes = @ + 1], m.err)
    /\ UNCHANGED <<cache_dir, origin, started, dateVars, csvVars, scanVars>>

\* The file object's buffer fills and is written at the descriptor's offset.
Flush(p) ==
    /\ proc[p].pc = "write"
    /\ proc[p].buf # <<>>
    /\ LET r == proc[p]
       IN  /\ fs' = [fs EXCEPT ![r.cache_file] = WriteAt(@, r.off, r.buf)]
           /\ proc' = [proc EXCEPT ![p] =
                 [r EXCEPT !.off = @ + Len(r.buf), !.buf = <<>>, !.writes = @ + 1]]
    /\ UNCHANGED <<cache_dir, origin, log, started, dateVars, csvVars, scanVars>>

\* Line 124-125: no match is left; the with block closes the file.
CloseArtifact(p) ==
    /\ proc[p].pc = "write"
    /\ proc[p].matches = <<>>
    /\ LET r == proc[p]
       IN  /\ fs' = [fs EXCEPT ![r.cache_file] = WriteAt(@, r.off, r.buf)]
           /\ proc' = [proc EXCEPT ![p] =
                 [r EXCEPT !.pc = "analyse", !.off = @ + Len(r.buf), !.buf = <<>>,
                           !.writes = @ + 1]]
    /\ UNCHANGED <<cache_dir, origin, log, started, dateVars, csvVars, scanVars>>

\* Lines 132-137: the aggregation opens the artifact.
OpenCache(p) ==
    /\ proc[p].pc = "analyse"
    /\ proc' = [proc EXCEPT ![p] = [proc[p] EXCEPT !.pc = "read", !.rpos = 0,
                                                   !.users = <<>>]]
    /\ UNCHANGED <<cache_dir, fs, origin, log, started, dateVars, csvVars, scanVars>>

\* Lines 138-142: the next row of the artifact is read and aggregated; at the
\* end of the file the loop ends.
ReadRow(p) ==
    /\ proc[p].pc = "read"
    /\ LET r == proc[p]
           file == fs[r.cache_file]
       IN  IF r.rpos >= Len(file)
           THEN /\ proc' = [proc EXCEPT ![p].pc = "sort"]
                /\ UNCHANGED log
           ELSE \E ms \in {parse_message_from_csv(file[r.rpos + 1])} :
                    IF ms.ok
                    THEN /\ proc' = [proc EXCEPT ![p] =
                               [r EXCEPT !.rpos = @ + 1,
                                         !.users = AddMessages(@, ms.val)]]
                         /\ UNCHANGED log
                    ELSE Fail(p, r, ms.err)
    /\ UNCHANGED <<cache_dir, fs, origin, started, dateVars, csvVars, scanVars>>

\* Lines 148-150: the users ordered by their number of messages; the run ends.
SortUsers(p) ==
    /\ proc[p].pc = "sort"
    /\ \E order \in Orders(DOMAIN proc[p].users) :
          proc' = [proc EXCEPT ![p] =
                     [proc[p] EXCEPT !.pc = "done",
                        !.ordered = sorted(Items(proc[p].users, order))]]
    /\ log' = Append(log, LogEntry(proc[p], "done"))
    /\ UNCHANGED <<cache_dir, fs, origin, started, dateVars, csvVars, scanVars>>

Step(p, pool) ==
    \/ Start(p, pool)
    \/ CheckDir(p)
    \/ MakeDirs(p)
    \/ IsFile(p)
    \/ OpenArtifact(p)
    \/ WriteRow(p)
    \/ Flush(p)
    \/ CloseArtifact(p)
    \/ OpenCache(p)
    \/ ReadRow(p)
    \/ SortUsers(p)

-----------------------------------------------------------------------------
(* A synthetic cache for the aggregation: rows of known users and          *)
(* timestamps, written by the cache build's own writer.                    *)

TextEve == <<"E","v","e">>
AggUsers == {TextAlice, TextBob, TextEve}
AggDates ==
    << parse_datetime(DateMonday).val,
       parse_datetime(DateBob).val,
       parse_datetime(DateInput(<<"4">>, <<"D","e","c","e","m","b","e","r">>,
                                <<"0","0",":","0","0">>, LabelUTC, 7)).val,
       parse_datetime(DateInput(<<"2","6">>, <<"j","u","n","e">>,
                                <<"1","2",":","3","0">>, LabelUTC01, 7)).val >>
AggPath == CachePath("chat", <<>>)

-----------------------------------------------------------------------------
(* Specifications.                                                         *)

\* The parts of the state a specification does not use stay as they start.
DateIdle == dt_str = <<>> /\ dt_res = <<>>
CsvIdle == msg = <<>> /\ csvfile = <<>> /\ readback = <<>>
ScanIdle == html = <<>> /\ scanned = <<>>

\* Invocations of the script one after the other, over any of the sources.
Init == InitRun /\ DateIdle /\ CsvIdle /\ ScanIdle
Next == Step(1, Sources)
Spec == Init /\ [][Next]_vars

\* Two processes running the script at the same time.
NextConc == \E p \in Procs : Step(p, ConcSources)
SpecConc == Init /\ [][NextConc]_vars

\* The aggregation over each synthetic cache.
AggInit ==
    /\ \E n \in 0..MaxRows :
         \E us \in [1..n -> AggUsers], k \in 1..Len(AggDates) :
            msg = [i \in 1..n |->
                     Message(us[i], TextHello, AggDates[((i + k) % Len(AggDates)) + 1])]
    /\ fs = [q \in {AggPath} |-> [i \in 1..Len(msg) |-> CacheRow(msg[i])]]
    /\ origin = [q \in {AggPath} |-> {}]
    /\ cache_dir = TRUE
    /\ proc = [p \in Procs |->
                 IF p = 1 THEN [IdleProc EXCEPT !.pc = "analyse", !.cache_file = AggPath]
                 ELSE IdleProc]
    /\ log = <<>> /\ started = 1
    /\ csvfile = <<>> /\ readback = <<>>
    /\ DateIdle /\ ScanIdle
NextAgg == OpenCache(1) \/ ReadRow(1) \/ SortUsers(1)
SpecAgg == AggInit /\ [][NextAgg]_vars

\* The date parser applied to each input.
DateInit == InitDate /\ InitRun /\ CsvIdle /\ ScanIdle
NextDate == ParseDate
SpecDate == DateInit /\ [][NextDate]_vars

\* The cache round trip of each Message.
CsvInit == InitCsv /\ InitRun /\ DateIdle /\ ScanIdle
NextCsv == WriteRows \/ ReadRows
SpecCsv == CsvInit /\ [][NextCsv]_vars

\* The extraction of each source text.
ScanInit == InitScan /\ InitRun /\ DateIdle /\ CsvIdle
NextScan == Scan
SpecScan == ScanInit /\ [][NextScan]_vars

-----------------------------------------------------------------------------
(* Properties.                                                             *)

\* C1 (as claimed): when a run fails during extraction, on a fragment with no
\* metadata element, no file exists at its artifact path afterwards.
C1_NoArtifactAfterFailedExtraction ==
    \A p \in Procs :
        (/\ proc[p].pc = "failed" /\ proc[p].stage = "write"
         /\ ~Has(Head(proc[p].matches), "meta"))
            => proc[p].cache_file \notin DOMAIN fs

C3_DifferentContentNewPath ==
    \A p \in Procs : proc[p].novel => proc[p].fresh

\* C3 (amended): a run over a source whose base name and MD5 digest differ,
\* as a pair, from those of every source cached so far resolves to a path
\* where no artifact exists and creates an artifact there; and no step changes
\* or removes an artifact other than the one the stepping run resolved.
C3_DifferentKeyNewPath ==
    [][ /\ \A p \in Procs :
              (proc[p].pc = "isfile" /\ proc'[p].pc # "isfile" /\ proc'[p].novelKey)
                  => /\ proc'[p].cache_file \notin DOMAIN fs
                     /\ proc'[p].pc = "build"
        /\ \A p \in Procs :
              (proc[p].pc = "build" /\ proc'[p].pc # "build" /\ proc[p].novelKey)
                  => /\ proc[p].cache_file \notin DOMAIN fs
                     /\ proc[p].cache_file \in DOMAIN fs'
        /\ \A q \in DOMAIN fs :
              /\ q \in DOMAIN fs'
              /\ fs'[q] # fs[q] =>
                    \E p \in Procs : /\ proc[p].cache_file = q
                                     /\ proc[p].pc \in {"build", "write"}
                                     /\ proc'[p] # proc[p]
      ]_vars

C3_Witness ==
    \E p \in Procs :
        /\ proc[p].pc = "write" /\ proc[p].novelKey
        /\ proc[p].cache_file \in DOMAIN fs
        /\ \E q \in DOMAIN fs : q # proc[p].cache_file /\ fs[q] # <<>>

RECURSIVE RowsOfFragments(_)
RowsOfFragments(frags) ==
    IF frags = <<>> THEN <<>>
    ELSE <<CacheRow(parse_message_from_html(Head(frags)).val)>>
         \o RowsOfFragments(Tail(frags))

\* The fragments of a text as the claim reads them: from a message-start
\* marker to the first paragraph close after it, line breaks or not.
Fragments(text) == FindFrom(text, 1, TRUE, <<>>)

\* C4 (as claimed): the rows written are, one for one and in order, the rows
\* of the fragments of the source text (stated for the texts whose fragments
\* are all well-formed).
C4_RowsMatchFragments ==
    (/\ scanned # <<>>
     /\ \A i \in 1..Len(Fragments(html)) :
           parse_message_from_html(Fragments(html)[i]).ok)
        => /\ scanned[1].ok
           /\ scanned[1].rows = RowsOfFragments(Fragments(html))

\* The rows consumed so far by the aggregation of process 1.
Seen == SubSeq(msg, 1, proc[1].rpos)
CountOf(u) == Cardinality({ i \in 1..Len(Seen) : Seen[i].user = u })

\* C5: during and after the aggregation the users with an aggregate are the
\* users of the rows seen so far (none is ever removed); each user's three
\* sequences have the length of the number of rows seen with exactly that
\* user; weekdays lie in 0..6, months in 1..12 and hours in 0..23.
C5_AggregateShape ==
    proc[1].pc \in {"read", "sort", "done"} =>
        LET users == proc[1].users
        IN  /\ DOMAIN users = { Seen[i].user : i \in 1..Len(Seen) }
            /\ \A u \in DOMAIN users :
                  /\ Len(users[u].weekdays) = CountOf(u)
                  /\ Len(users[u].months) = CountOf(u)
                  /\ Len(users[u].hours) = CountOf(u)
                  /\ \A i \in 1..CountOf(u) :
                        /\ users[u].weekdays[i] \in 0..6
                        /\ users[u].months[i] \in 1..12
                        /\ users[u].hours[i] \in 0..23

C5_Witness ==
    /\ proc[1].pc = "done"
    /\ Cardinality(DOMAIN proc[1].users) = 3
    /\ \E u \in DOMAIN proc[1].users :
          /\ Len(proc[1].users[u].hours) = 3
          /\ proc[1].users[u].weekdays = <<6, 0, 0>>
          /\ proc[1].users[u].months = <<12, 1, 1>>

\* C6: after the last row the users are ordered by ascending message count,
\* every user is in the ordering once, and the ordering holds each user's
\* sequences as they were aggregated.
C6_OrderedByCount ==
    proc[1].pc = "done" =>
        LET users == proc[1].users
            ordered == proc[1].ordered
        IN  /\ Len(ordered) = Cardinality(DOMAIN users)
            /\ { ordered[i].name : i \in 1..Len(ordered) } = DOMAIN users
            /\ \A i \in 1..Len(ordered) : ordered[i].user = users[ordered[i].name]
            /\ \A i, j \in 1..Len(ordered) :
                  i < j => Len(ordered[i].user.hours) <= Len(ordered[j].user.hours)

C6_Witness ==
    /\ proc[1].pc = "done"
    /\ Len(proc[1].ordered) = 3
    /\ Len(proc[1].ordered[1].user.hours) = 1
    /\ Len(proc[1].ordered[2].user.hours) = 2
    /\ Len(proc[1].ordered[3].user.hours) = 3
    /\ proc[1].ordered[1].name = TextEve
    /\ proc[1].ordered[3].name = TextAlice

\* The cache row and the aggregate of the end-to-end example.
ExampleRow ==
    <<"A","l","i","c","e",",","h","e","l","l","o",",",
      "2","0","2","2","-","0","1","-","0","3","T","0","9",":","1","5",":","0","0",
      "+","0","0",":","0","0","\r","\n">>
ExampleUsers == [u \in {TextAlice} |-> User(<<0>>, <<1>>, <<9>>)]

ExampleOutcome(r) ==
    /\ r.pc = "done"
    /\ fs[r.cache_file] = <<ExampleRow>>
    /\ r.users = ExampleUsers

\* C7 (as claimed): a run over the example source, whose metadata text is
\* "Mon 3 Jan 2022 09:15 UTC", ends without error with one cache row and the
\* aggregate Alice: weekdays [0], months [1], hours [9].
C7_ExampleProcessed ==
    \A p \in Procs :
        (proc[p].src = SrcExample /\ proc[p].pc \in {"done", "failed"})
            => ExampleOutcome(proc[p])

\* C7 (amended): a run over the example source with the metadata text in the
\* seven token layout, "Monday, 3 January 2022 at 09:15 UTC", ends without
\* error with the one cache row Alice,hello,2022-01-03T09:15:00+00:00 and the
\* aggregate Alice: weekdays [0], months [1], hours [9].
C7_SevenTokenExampleProcessed ==
    \A p \in Procs :
        (proc[p].src = SrcExample7 /\ proc[p].pc \in {"done", "failed"})
            => ExampleOutcome(proc[p])

C7_Witness ==
    \E p \in Procs :
        proc[p].src = SrcExample7 /\ proc[p].pc = "done" /\ proc[p].built

\* The ways the claim lists in which an input departs from the expected shape
\* of seven tokens: weekday, day, month name, year, a word, hour:minute, zone.
Departs(s) ==
    LET parts == split(s, " ")
        hm == split(parts[6], ":")
    IN  \/ Len(parts) # 7
        \/ /\ Len(hm) = 2 /\ int(hm[1]).ok /\ int(hm[2]).ok
           /\ int(hm[1]).val \notin 0..23 \/ int(hm[2]).val \notin 0..59
        \/ int(parts[2]).ok /\ int(parts[2]).val \notin 1..31
        \/ \A k \in 2..13 :
              [i \in 1..Len(parts[3]) |-> lower(parts[3][i])]
                 # [i \in 1..Len(month_name[k]) |-> lower(month_name[k][i])]
        \/ parts[7] \notin {LabelUTC, LabelUTC01}

\* C8 (as claimed): the date parser returns no timestamp for an input that
\* departs from the expected shape.
C8_RejectsEveryDeparture ==
    (dt_res # <<>> /\ Departs(dt_str)) => ~dt_res[1].ok

SameMessage(a, b) ==
    /\ a.user = b.user
    /\ a.message = b.message
    /\ Instant(a.created) = Instant(b.created)

C10_NoPartialRead ==
    \A p \in Procs :
        /\ proc[p].pc \in {"sort", "done"}
              => proc[p].rpos = Len(BuildRows(proc[p].src.bytes).rows)
        /\ ~(proc[p].pc = "failed" /\ proc[p].stage = "read")

=============================================================================
